---- MODULE Spec2Model ----
(***************************************************************************)
(* Model of cleanlab/token_classification/rank.py:                         *)
(*   _softmin_sentence_score, get_label_quality_scores (with its inner     *)
(*   nested_list) and issues_from_scores.                                  *)
(*                                                                         *)
(* Numbers.  A score k in 0..MaxScore stands for the float k * u with      *)
(* u = 0.05 * ln 2, so that at the default temperature 0.05 the softmax    *)
(* weight exp((1 - k*u) / 0.05) is e^20 * 2^(-k): after the division by    *)
(* the sum the weights are 2^(MaxScore-k) / sum, a rational.  Sentence     *)
(* scores computed by get_label_quality_scores are rationals               *)
(* [num, den] in units of u.  Sentence and token indices are 0-based as    *)
(* in the code; TLA+ sequences are 1-based, hence the +1 / -1.             *)
(* Optional arguments are records [some, v]; None is [some |-> FALSE].     *)
(***************************************************************************)
EXTENDS Integers, Sequences, FiniteSets, TLC

\* Bounds of the model.
MaxTokens == 3
MaxScoredTokens == 2
MaxScore == 2

Scores == 0 .. MaxScore
Thresholds == 1 .. MaxScore

VARIABLES
    pc, exception,
    \* issues_from_scores: arguments, locals, return value
    sentence_scores, token_scores, threshold,
    issues_with_scores, ranking, cutoff, issues,
    \* get_label_quality_scores: arguments, locals, return value
    labels, pred_probs, tokens, sentence_score_method, sentence_score_kwargs,
    labels_flatten, pred_probs_flatten, sentence_length, scores_nl,
    token_info, scorer_calls,
    \* nested_list on its own: the nested input, its flattening x, the result
    nest_input, x, nested

ctlVars == <<pc, exception>>
issueVars == <<threshold, issues_with_scores, ranking, cutoff, issues>>
scoreVars == <<labels, pred_probs, tokens, sentence_score_method,
               sentence_score_kwargs, labels_flatten, pred_probs_flatten,
               sentence_length, scores_nl, token_info, scorer_calls>>
nestVars == <<nest_input, x, nested>>
vars == <<pc, exception, sentence_scores, token_scores, issueVars, scoreVars,
          nestVars>>

---------------------------------------------------------------------------
\* Python values

None == [some |-> FALSE, v |-> <<>>]
Some(v) == [some |-> TRUE, v |-> v]

\* `if token_scores:` / `if tokens:`: None and the empty list are falsy.
Truthy(opt) == opt.some /\ opt.v # <<>>

SeqsUpTo(S, n) == UNION {[1 .. k -> S] : k \in 0 .. n}

\* Nested lists of non-empty sentences over S with at most n elements in all.
RECURSIVE NestedSeqs(_, _)
NestedSeqs(S, n) ==
    {<<>>} \cup
    UNION {{<<s>> \o rest : s \in [1 .. k -> S], rest \in NestedSeqs(S, n - k)}
           : k \in 1 .. n}

RECURSIVE Sum(_)
Sum(s) == IF s = <<>> THEN 0 ELSE Head(s) + Sum(Tail(s))

RECURSIVE Pow2(_)
Pow2(n) == IF n = 0 THEN 1 ELSE 2 * Pow2(n - 1)

\* np.min of a non-empty sequence, as a left-to-right reduction.
RECURSIVE NpMin(_)
NpMin(s) ==
    IF Len(s) = 1 THEN s[1]
    ELSE LET m == NpMin(Tail(s)) IN IF Head(s) < m THEN Head(s) ELSE m

Rat(n, d) == [num |-> n, den |-> d]

\* np.mean: sum / len.
NpMean(s) == Rat(Sum(s), Len(s))

---------------------------------------------------------------------------
\* get_label_quality_scores: flattening and nested_list

\* A slip: the sentences concatenated last to first.
RECURSIVE FlattenBackwards(_)
FlattenBackwards(nl) ==
    IF nl = <<>> THEN <<>> ELSE FlattenBackwards(Tail(nl)) \o Head(nl)

\* [l for label in labels for l in label]
RECURSIVE Flatten(_)
Flatten(nl) == IF nl = <<>> THEN <<>> ELSE Head(nl) \o Flatten(Tail(nl))

\* [len(label) for label in labels]
SentenceLengths(nl) == [i \in 1 .. Len(nl) |-> Len(nl[i])]

\* nested_list: one iterator over a, `consumed` items already taken from it;
\* next(i) on an exhausted iterator raises StopIteration.
RECURSIVE NestedListFrom(_, _, _)
NestedListFrom(a, lengths, consumed) ==
    IF lengths = <<>> THEN [raised |-> FALSE, v |-> <<>>]
    ELSE LET length == Head(lengths) IN
         IF consumed + length > Len(a) THEN [raised |-> TRUE, v |-> <<>>]
         ELSE LET rest == NestedListFrom(a, Tail(lengths), consumed + length) IN
              IF rest.raised THEN rest
              ELSE [raised |-> FALSE,
                    v |-> <<SubSeq(a, consumed + 1, consumed + length)>> \o rest.v]

\* A slip: a fresh iterator for every sentence.
NestedListRestart(a, lengths) ==
    IF \E i \in 1 .. Len(lengths) : lengths[i] > Len(a)
    THEN [raised |-> TRUE, v |-> <<>>]
    ELSE [raised |-> FALSE,
          v |-> [i \in 1 .. Len(lengths) |-> SubSeq(a, 1, lengths[i])]]

NestedList(a, lengths) == NestedListFrom(a, lengths, 0)

---------------------------------------------------------------------------
\* issues_from_scores: helpers

\* The triples (sentence_index, token_index, score) the inner loop appends
\* for sentence i (0-based), in token order.
TokenIssues(i, scores, thr) ==
    SelectSeq([j \in 1 .. Len(scores) |-> <<i, j - 1, scores[j]>>],
              LAMBDA t : t[3] < thr)

\* The two nested for loops, from the k-th sentence (1-based) on.
RECURSIVE IssuesWithScoresFrom(_, _, _)
IssuesWithScoresFrom(ts, k, thr) ==
    IF k > Len(ts) THEN <<>>
    ELSE TokenIssues(k - 1, ts[k], thr) \o IssuesWithScoresFrom(ts, k + 1, thr)

\* A slip: an unstable insertion, which puts t before the triples of equal score.
RECURSIVE InsertBeforeEqual(_, _)
InsertBeforeEqual(l, t) ==
    IF l = <<>> THEN <<t>>
    ELSE IF Head(l)[3] < t[3] THEN <<Head(l)>> \o InsertBeforeEqual(Tail(l), t)
    ELSE <<t>> \o l

\* sorted(..., key=lambda x: x[2]) is stable: t goes after every triple whose
\* score is less than or equal to its own.
RECURSIVE InsertByScore(_, _)
InsertByScore(l, t) ==
    IF l = <<>> THEN <<t>>
    ELSE IF Head(l)[3] <= t[3] THEN <<Head(l)>> \o InsertByScore(Tail(l), t)
    ELSE <<t>> \o l

RECURSIVE SortedByScore(_)
SortedByScore(l) ==
    IF l = <<>> THEN <<>>
    ELSE InsertByScore(SortedByScore(SubSeq(l, 1, Len(l) - 1)), l[Len(l)])

\* np.argsort(a) with the default kind="quicksort", which is not stable: any
\* permutation of 0..len(a)-1 along which the scores do not decrease.
ArgsortResults(a) ==
    {r \in [1 .. Len(a) -> 0 .. Len(a) - 1] :
        /\ \A i, j \in 1 .. Len(a) : i # j => r[i] # r[j]
        /\ \A i \in 1 .. Len(a) - 1 : a[r[i] + 1] <= a[r[i + 1] + 1]}

---------------------------------------------------------------------------
\* Values of the variables a function does not use.

IdleIssues ==
    /\ threshold = 0
    /\ issues_with_scores = <<>>
    /\ ranking = <<>>
    /\ cutoff = 0
    /\ issues = <<>>

IdleScores ==
    /\ labels = <<>>
    /\ pred_probs = <<>>
    /\ tokens = None
    /\ sentence_score_method = "min"
    /\ sentence_score_kwargs = None
    /\ labels_flatten = <<>>
    /\ pred_probs_flatten = <<>>
    /\ sentence_length = <<>>
    /\ scores_nl = <<>>
    /\ token_info = <<>>
    /\ scorer_calls = 0

IdleNest ==
    /\ nest_input = <<>>
    /\ x = <<>>
    /\ nested = <<>>

---------------------------------------------------------------------------
\* issues_from_scores(sentence_scores, token_scores=None, threshold)

\* The calls: without token scores or with an empty list, any sentence
\* scores; with token scores, one sentence score per sentence of them.
InitIssues ==
    /\ pc = "if_token_scores"
    /\ exception = "none"
    /\ threshold \in Thresholds
    /\ \/ /\ token_scores \in {None, Some(<<>>)}
          /\ sentence_scores \in SeqsUpTo(Scores, MaxTokens)
       \/ \E ts \in NestedSeqs(Scores, MaxTokens) \ {<<>>} :
              /\ token_scores = Some(ts)
              /\ sentence_scores \in [1 .. Len(ts) -> Scores]
    /\ issues_with_scores = <<>>
    /\ ranking = <<>>
    /\ cutoff = 0
    /\ issues = <<>>
    /\ IdleScores
    /\ IdleNest

\* line 233: if token_scores:
IfTokenScores ==
    /\ pc = "if_token_scores"
    /\ Truthy(token_scores)
    /\ pc' = "for"
    /\ UNCHANGED <<exception, sentence_scores, token_scores, issueVars,
                   scoreVars, nestVars>>

\* line 244: else:
ElseNoTokenScores ==
    /\ pc = "if_token_scores"
    /\ ~Truthy(token_scores)
    /\ pc' = "argsort"
    /\ UNCHANGED <<exception, sentence_scores, token_scores, issueVars,
                   scoreVars, nestVars>>

\* lines 234-238
CollectIssues ==
    /\ pc = "for"
    /\ issues_with_scores' = IssuesWithScoresFrom(token_scores.v, 1, threshold)
    /\ pc' = "sorted"
    /\ UNCHANGED <<exception, sentence_scores, token_scores, threshold,
                   ranking, cutoff, issues, scoreVars, nestVars>>

\* lines 240-242
SortAndReturnIssues ==
    /\ pc = "sorted"
    /\ LET s == SortedByScore(issues_with_scores) IN
       /\ issues_with_scores' = s
       /\ issues' = [k \in 1 .. Len(s) |-> <<s[k][1], s[k][2]>>]
    /\ pc' = "return_issues"
    /\ UNCHANGED <<exception, sentence_scores, token_scores, threshold,
                   ranking, cutoff, scoreVars, nestVars>>

\* lines 245-246
Argsort ==
    /\ pc = "argsort"
    /\ \E r \in ArgsortResults(sentence_scores) : ranking' = r
    /\ cutoff' = 0
    /\ pc' = "while"
    /\ UNCHANGED <<exception, sentence_scores, token_scores, threshold,
                   issues_with_scores, issues, scoreVars, nestVars>>

\* line 247: the left operand of `and` is evaluated first, and
\* ranking[cutoff] with cutoff = len(ranking) raises IndexError.
WhileRaises ==
    /\ pc = "while"
    /\ cutoff >= Len(ranking)
    /\ exception' = "IndexError"
    /\ pc' = "raised"
    /\ UNCHANGED <<sentence_scores, token_scores, issueVars, scoreVars,
                   nestVars>>

\* lines 247-248
WhileBody ==
    /\ pc = "while"
    /\ cutoff < Len(ranking)
    /\ sentence_scores[ranking[cutoff + 1] + 1] < threshold
    /\ cutoff < Len(ranking)
    /\ cutoff' = cutoff + 1
    /\ UNCHANGED <<ctlVars, sentence_scores, token_scores, threshold,
                   issues_with_scores, ranking, issues, scoreVars, nestVars>>

\* lines 247, 249
ReturnRanking ==
    /\ pc = "while"
    /\ cutoff < Len(ranking)
    /\ ~(sentence_scores[ranking[cutoff + 1] + 1] < threshold)
    /\ issues' = SubSeq(ranking, 1, cutoff)
    /\ pc' = "return_ranking"
    /\ UNCHANGED <<exception, sentence_scores, token_scores, threshold,
                   issues_with_scores, ranking, cutoff, scoreVars, nestVars>>

NextIssues ==
    \/ IfTokenScores
    \/ ElseNoTokenScores
    \/ CollectIssues
    \/ SortAndReturnIssues
    \/ Argsort
    \/ WhileRaises
    \/ WhileBody
    \/ ReturnRanking

SpecIssues == InitIssues /\ [][NextIssues]_vars

DoneIssues == pc \in {"return_issues", "return_ranking", "raised"}

\* The score of the token an issue (i, j) names.
IssueScore(p) == token_scores.v[p[1] + 1][p[2] + 1]

LexLess(p, q) == p[1] < q[1] \/ (p[1] = q[1] /\ p[2] < q[2])

---------------------------------------------------------------------------
\* Properties of issues_from_scores (checked under SpecIssues)

BelowThreshold == {i \in 0 .. Len(sentence_scores) - 1 : sentence_scores[i + 1] < threshold}

BelowThresholdTokens ==
    {<<i, j>> \in (0 .. MaxTokens) \X (0 .. MaxTokens) :
        /\ i < Len(token_scores.v)
        /\ j < Len(token_scores.v[i + 1])
        /\ token_scores.v[i + 1][j + 1] < threshold}

\* C1: called without token scores, issues_from_scores returns exactly the
\* indices i with sentence_scores[i] < threshold, each once, in ascending
\* order of sentence score, for every sentence_scores and every threshold.
C1_SentenceModeExact ==
    (~token_scores.some /\ DoneIssues) =>
        /\ pc = "return_ranking"
        /\ {issues[k] : k \in 1 .. Len(issues)} = BelowThreshold
        /\ Len(issues) = Cardinality(BelowThreshold)
        /\ \A k \in 1 .. Len(issues) - 1 :
               sentence_scores[issues[k] + 1] <= sentence_scores[issues[k + 1] + 1]

\* C2: called with token scores, issues_from_scores returns exactly the pairs
\* (i, j) with token_scores[i][j] < threshold (strictly), in ascending order
\* of token score, for every token_scores and every threshold.
C2_TokenModeExact ==
    (token_scores.some /\ DoneIssues) =>
        /\ pc = "return_issues"
        /\ {issues[k] : k \in 1 .. Len(issues)} = BelowThresholdTokens
        /\ Len(issues) = Cardinality(BelowThresholdTokens)
        /\ \A k \in 1 .. Len(issues) - 1 :
               IssueScore(issues[k]) <= IssueScore(issues[k + 1])

\* C3: the mode is selected only by whether token_scores is supplied: a
\* supplied token_scores (an empty list included) never takes the
\* sentence-mode path, and an absent one never takes the token-mode path.
C3_ModeBySupplied ==
    /\ token_scores.some => pc \in {"if_token_scores", "for", "sorted", "return_issues"}
    /\ ~token_scores.some => pc \notin {"for", "sorted", "return_issues"}

\* C9: every evaluation of the while condition reads the ranking at a
\* position cutoff < len(ranking), so the walk never raises an out-of-range
\* error (all scores below the threshold, or no scores at all, included).
C9_WalkStaysInRange ==
    pc = "while" => cutoff < Len(ranking)

\* C10: in token mode the result is strictly ordered by (score, sentence
\* index, token index): kept tokens of equal score come in lexicographic
\* order of (sentence index, token index), so the list is determined by
\* token_scores and threshold.
C10_StableTies ==
    pc = "return_issues" =>
        \A p, q \in 1 .. Len(issues) :
            p < q =>
                \/ IssueScore(issues[p]) < IssueScore(issues[q])
                \/ /\ IssueScore(issues[p]) = IssueScore(issues[q])
                   /\ LexLess(issues[p], issues[q])

\* Two kept tokens of equal score, in one sentence and in two sentences.
C10_Witness ==
    /\ pc = "return_issues"
    /\ \E p, q \in 1 .. Len(issues) :
           /\ p < q
           /\ IssueScore(issues[p]) = IssueScore(issues[q])
           /\ issues[p][1] # issues[q][1]
    /\ \E p, q \in 1 .. Len(issues) :
           /\ p < q
           /\ IssueScore(issues[p]) = IssueScore(issues[q])
           /\ issues[p][1] = issues[q][1]

---------------------------------------------------------------------------
\* _softmin_sentence_score(token_scores, temperature)

\* The temperatures of the model: 0, the default 0.05 and np.inf.
DefaultTemperature == "0.05"
Temperatures == {"0", DefaultTemperature, "inf"}

\* fun(scores) = np.dot(scores, softmax(1 - scores)) at temperature 0.05,
\* with scores in units of 0.05 * ln 2 (see the head of the module).
SoftminFun(scores) ==
    Rat(Sum([i \in 1 .. Len(scores) |-> scores[i] * Pow2(MaxScore - scores[i])]),
        Sum([i \in 1 .. Len(scores) |-> Pow2(MaxScore - scores[i])]))

\* A slip: the two special temperatures exchanged.
SoftminSwapped(ts, temperature) ==
    IF temperature = "inf" THEN [i \in 1 .. Len(ts) |-> Rat(NpMin(ts[i]), 1)]
    ELSE IF temperature = "0" THEN [i \in 1 .. Len(ts) |-> NpMean(ts[i])]
    ELSE [i \in 1 .. Len(ts) |-> SoftminFun(ts[i])]

SoftminSentenceScore(ts, temperature) ==
    IF temperature = "0" THEN [i \in 1 .. Len(ts) |-> Rat(NpMin(ts[i]), 1)]
    ELSE IF temperature = "inf" THEN [i \in 1 .. Len(ts) |-> NpMean(ts[i])]
    ELSE [i \in 1 .. Len(ts) |-> SoftminFun(ts[i])]

---------------------------------------------------------------------------
\* get_label_quality_scores(labels, pred_probs, tokens=None,
\*                          sentence_score_method, sentence_score_kwargs)
\* Here token_scores is the local of that name (the flat scores the scorer
\* returns) and sentence_scores the first component of the return value.

\* A slip: a third name let through by the assertion.
MethodsAndMean == {"min", "softmin", "mean"}

\* methods = ["min", "softmin"]
Methods == {"min", "softmin"}

Labels == {0, 1}
ProbRows == {"row"}
Words == {"tok"}
MethodNames == {"min", "softmin", "mean"}

\* cleanlab.rank.get_label_quality_scores: one score per flat label, in the
\* same order, whatever the method; flat labels and flat probability rows of
\* different lengths are rejected.
MainGetLabelQualityScores(lf, pf) ==
    IF Len(lf) # Len(pf) THEN {[raised |-> TRUE, v |-> <<>>]}
    ELSE {[raised |-> FALSE, v |-> ts] : ts \in [1 .. Len(lf) -> Scores]}

\* pd.Series(scores): the default index 0..len-1.
RangeIndex(n) == [j \in 1 .. n |-> j - 1]

\* zip(scores_nl, tokens) stops at the shorter of the two.
ZipLen(a, b) == IF Len(a) < Len(b) THEN Len(a) ELSE Len(b)

InitScores ==
    /\ pc = "assert"
    /\ exception = "none"
    /\ labels \in NestedSeqs(Labels, MaxScoredTokens) \ {<<>>}
    /\ pred_probs \in NestedSeqs(ProbRows, MaxScoredTokens)
    /\ tokens \in {None} \cup {Some(t) : t \in NestedSeqs(Words, MaxScoredTokens)}
    /\ sentence_score_method \in MethodNames
    /\ sentence_score_kwargs \in {None, Some("0"), Some("inf")}
    /\ labels_flatten = <<>>
    /\ pred_probs_flatten = <<>>
    /\ sentence_length = <<>>
    /\ token_scores = <<>>
    /\ scores_nl = <<>>
    /\ sentence_scores = <<>>
    /\ token_info = <<>>
    /\ scorer_calls = 0
    /\ IdleIssues
    /\ IdleNest

\* lines 144-147: the assertion fails
AssertMethodFails ==
    /\ pc = "assert"
    /\ sentence_score_method \notin Methods
    /\ exception' = "AssertionError"
    /\ pc' = "raised"
    /\ UNCHANGED <<sentence_scores, token_scores, issueVars, scoreVars, nestVars>>

\* lines 144-147: the assertion holds
AssertMethodHolds ==
    /\ pc = "assert"
    /\ sentence_score_method \in Methods
    /\ pc' = "flatten"
    /\ UNCHANGED <<exception, sentence_scores, token_scores, issueVars,
                   scoreVars, nestVars>>

\* lines 149-152
FlattenInputs ==
    /\ pc = "flatten"
    /\ labels_flatten' = Flatten(labels)
    /\ pred_probs_flatten' = Flatten(pred_probs)
    /\ sentence_length' = SentenceLengths(labels)
    /\ pc' = "scorer"
    /\ UNCHANGED <<exception, sentence_scores, token_scores, issueVars,
                   labels, pred_probs, tokens, sentence_score_method,
                   sentence_score_kwargs, scores_nl, token_info, scorer_calls,
                   nestVars>>

\* lines 158-160: the scorer raises
CallScorerRaises ==
    /\ pc = "scorer"
    /\ \E r \in MainGetLabelQualityScores(labels_flatten, pred_probs_flatten) :
           r.raised
    /\ scorer_calls' = scorer_calls + 1
    /\ exception' = "ValueError"
    /\ pc' = "raised"
    /\ UNCHANGED <<sentence_scores, token_scores, issueVars, labels,
                   pred_probs, tokens, sentence_score_method,
                   sentence_score_kwargs, labels_flatten, pred_probs_flatten,
                   sentence_length, scores_nl, token_info, nestVars>>

\* lines 158-160: the scorer returns
CallScorerReturns ==
    /\ pc = "scorer"
    /\ \E r \in MainGetLabelQualityScores(labels_flatten, pred_probs_flatten) :
           /\ ~r.raised
           /\ token_scores' = r.v
    /\ scorer_calls' = scorer_calls + 1
    /\ pc' = "nested_list"
    /\ UNCHANGED <<exception, sentence_scores, issueVars, labels, pred_probs,
                   tokens, sentence_score_method, sentence_score_kwargs,
                   labels_flatten, pred_probs_flatten, sentence_length,
                   scores_nl, token_info, nestVars>>

\* line 161
NestScores ==
    /\ pc = "nested_list"
    /\ LET r == NestedList(token_scores, sentence_length) IN
       IF r.raised
       THEN /\ exception' = "StopIteration"
            /\ pc' = "raised"
            /\ UNCHANGED scores_nl
       ELSE /\ scores_nl' = r.v
            /\ pc' = "aggregate"
            /\ UNCHANGED exception
    /\ UNCHANGED <<sentence_scores, token_scores, issueVars, labels,
                   pred_probs, tokens, sentence_score_method,
                   sentence_score_kwargs, labels_flatten, pred_probs_flatten,
                   sentence_length, token_info, scorer_calls, nestVars>>

\* lines 163-164
AggregateMin ==
    /\ pc = "aggregate"
    /\ sentence_score_method = "min"
    /\ sentence_scores' = [i \in 1 .. Len(scores_nl) |-> Rat(NpMin(scores_nl[i]), 1)]
    /\ pc' = "token_info"
    /\ UNCHANGED <<exception, token_scores, issueVars, scoreVars, nestVars>>

\* lines 165-168
AggregateSoftmin ==
    /\ pc = "aggregate"
    /\ sentence_score_method # "min"
    /\ IF sentence_score_method # "softmin"
       THEN /\ exception' = "AssertionError"
            /\ pc' = "raised"
            /\ UNCHANGED sentence_scores
       ELSE LET temperature == IF sentence_score_kwargs.some
                               THEN sentence_score_kwargs.v
                               ELSE DefaultTemperature IN
            /\ sentence_scores' = SoftminSentenceScore(scores_nl, temperature)
            /\ pc' = "token_info"
            /\ UNCHANGED exception
    /\ UNCHANGED <<token_scores, issueVars, scoreVars, nestVars>>

\* lines 170-171, 174: pd.Series(scores, index=token) of equal lengths
TokenInfoIndexed ==
    /\ pc = "token_info"
    /\ Truthy(tokens)
    /\ \A k \in 1 .. ZipLen(scores_nl, tokens.v) :
           Len(scores_nl[k]) = Len(tokens.v[k])
    /\ token_info' = [k \in 1 .. ZipLen(scores_nl, tokens.v) |->
                         [scores |-> scores_nl[k], index |-> tokens.v[k]]]
    /\ pc' = "return"
    /\ UNCHANGED <<exception, sentence_scores, token_scores, issueVars, labels,
                   pred_probs, tokens, sentence_score_method,
                   sentence_score_kwargs, labels_flatten, pred_probs_flatten,
                   sentence_length, scores_nl, scorer_calls, nestVars>>

\* lines 170-171: pd.Series raises ValueError when the index and the values
\* differ in length
TokenInfoRaises ==
    /\ pc = "token_info"
    /\ Truthy(tokens)
    /\ \E k \in 1 .. ZipLen(scores_nl, tokens.v) :
           Len(scores_nl[k]) # Len(tokens.v[k])
    /\ exception' = "ValueError"
    /\ pc' = "raised"
    /\ UNCHANGED <<sentence_scores, token_scores, issueVars, scoreVars, nestVars>>

\* lines 172-174
TokenInfoPositional ==
    /\ pc = "token_info"
    /\ ~Truthy(tokens)
    /\ token_info' = [k \in 1 .. Len(scores_nl) |->
                         [scores |-> scores_nl[k],
                          index |-> RangeIndex(Len(scores_nl[k]))]]
    /\ pc' = "return"
    /\ UNCHANGED <<exception, sentence_scores, token_scores, issueVars, labels,
                   pred_probs, tokens, sentence_score_method,
                   sentence_score_kwargs, labels_flatten, pred_probs_flatten,
                   sentence_length, scores_nl, scorer_calls, nestVars>>

NextScores ==
    \/ AssertMethodFails
    \/ AssertMethodHolds
    \/ FlattenInputs
    \/ CallScorerRaises
    \/ CallScorerReturns
    \/ NestScores
    \/ AggregateMin
    \/ AggregateSoftmin
    \/ TokenInfoIndexed
    \/ TokenInfoRaises
    \/ TokenInfoPositional

Spec == InitScores /\ [][NextScores]_vars

---------------------------------------------------------------------------
\* Properties of get_label_quality_scores (checked under Spec)

\* The flat positions (1-based) of sentence i (1-based) of labels.
Offset(i) == Sum(SubSeq(SentenceLengths(labels), 1, i - 1))
Positions(i) == (Offset(i) + 1) .. (Offset(i) + Len(labels[i]))

IsMinOf(v, S) == v \in S /\ \A w \in S : v <= w

\* C4: with a sentence_score_method other than "min" or "softmin" the call
\* fails with an AssertionError before any computation: nothing is
\* flattened, the scorer is never called, no scores are returned.
C4_InvalidMethodRejectedFirst ==
    sentence_score_method \notin {"min", "softmin"} =>
        /\ pc \in {"assert", "raised"}
        /\ pc = "raised" => exception = "AssertionError"
        /\ labels_flatten = <<>>
        /\ pred_probs_flatten = <<>>
        /\ sentence_length = <<>>
        /\ scorer_calls = 0
        /\ token_scores = <<>>
        /\ sentence_scores = <<>>
        /\ token_info = <<>>

C4_Witness ==
    /\ sentence_score_method = "mean"
    /\ pc = "raised"
    /\ exception = "AssertionError"
    /\ Len(labels) = 2

\* C5: the call returns scores only when labels and pred_probs, and tokens
\* when given, have identical per-sentence lengths; otherwise it fails.
C5_ShapeMismatchFails ==
    pc = "return" =>
        /\ SentenceLengths(pred_probs) = SentenceLengths(labels)
        /\ tokens.some => SentenceLengths(tokens.v) = SentenceLengths(labels)

C8_SoftminDegenerate ==
    (pc = "return" /\ sentence_score_method = "softmin" /\ sentence_score_kwargs.some) =>
        /\ Len(sentence_scores) = Len(scores_nl)
        /\ \A i \in 1 .. Len(scores_nl) :
               LET s == scores_nl[i] IN
               /\ sentence_score_kwargs.v = "0" =>
                      /\ sentence_scores[i].den = 1
                      /\ IsMinOf(sentence_scores[i].num, {s[j] : j \in 1 .. Len(s)})
               /\ sentence_score_kwargs.v = "inf" =>
                      sentence_scores[i].num * Len(s) = Sum(s) * sentence_scores[i].den

\* Temperature np.inf on a sentence whose mean is not one of its scores.
C8_Witness ==
    /\ pc = "return"
    /\ sentence_score_method = "softmin"
    /\ sentence_score_kwargs = Some("inf")
    /\ \E i \in 1 .. Len(scores_nl) :
           /\ Len(scores_nl[i]) = 2
           /\ scores_nl[i][1] # scores_nl[i][2]
           /\ sentence_scores[i].num * 2 = (scores_nl[i][1] + scores_nl[i][2]) * sentence_scores[i].den

---------------------------------------------------------------------------
\* nested_list applied to the flattening of a nested list

InitNest ==
    /\ pc = "flatten"
    /\ exception = "none"
    /\ nest_input \in NestedSeqs(Scores, MaxTokens)
    /\ x = <<>>
    /\ nested = <<>>
    /\ sentence_scores = <<>>
    /\ token_scores = None
    /\ IdleIssues
    /\ IdleScores

\* lines 149, 152: flat list and sentence lengths of the nested input
FlattenNested ==
    /\ pc = "flatten"
    /\ x' = Flatten(nest_input)
    /\ sentence_length' = SentenceLengths(nest_input)
    /\ pc' = "nested_list"
    /\ UNCHANGED <<exception, sentence_scores, token_scores, issueVars, labels,
                   pred_probs, tokens, sentence_score_method,
                   sentence_score_kwargs, labels_flatten, pred_probs_flatten,
                   scores_nl, token_info, scorer_calls, nest_input, nested>>

\* lines 154-156
CallNestedList ==
    /\ pc = "nested_list"
    /\ LET r == NestedList(x, sentence_length) IN
       IF r.raised
       THEN /\ exception' = "StopIteration"
            /\ pc' = "raised"
            /\ UNCHANGED nested
       ELSE /\ nested' = r.v
            /\ pc' = "return"
            /\ UNCHANGED exception
    /\ UNCHANGED <<sentence_scores, token_scores, issueVars, scoreVars,
                   nest_input, x>>

NextNest ==
    \/ FlattenNested
    \/ CallNestedList

SpecNest == InitNest /\ [][NextNest]_vars

\* C6: nested_list(flatten(x), lengths of x) returns x: as many sentences,
\* each of its length, the same elements in the same order; the flat length
\* is the sum of the lengths; the call does not raise.
C6_FlattenNestRoundTrip ==
    /\ pc # "raised"
    /\ pc = "return" =>
           /\ Len(x) = Sum(sentence_length)
           /\ Len(nested) = Len(nest_input)
           /\ \A i \in 1 .. Len(nest_input) :
                  /\ Len(nested[i]) = Len(nest_input[i])
                  /\ \A j \in 1 .. Len(nest_input[i]) : nested[i][j] = nest_input[i][j]

\* Two sentences of different lengths with pairwise different elements.
C6_Witness ==
    /\ pc = "return"
    /\ Len(nest_input) = 2
    /\ Len(nest_input[1]) # Len(nest_input[2])
    /\ Cardinality({x[k] : k \in 1 .. Len(x)}) = Len(x)
    /\ nested = nest_input

====
